---------------------------- MODULE Spec2Model ----------------------------
(***************************************************************************)
(* Non-dominated sorting of pearlmoo/utils/tools.py.                       *)
(*                                                                         *)
(* A population is the Python dict  key -> (position, strategy, fitness);  *)
(* pop.items() enumerates it in insertion order.  It is modelled as the    *)
(* sequence of its fitness entries, the key of an individual being its     *)
(* index in that sequence.  A returned front is the sequence of the keys   *)
(* of the (key, value) items the code puts in it.                          *)
(*                                                                         *)
(* A plain fitness is the sequence of its weighted objective values; a     *)
(* constrained fitness is the record {"objectives": [values],              *)
(* "constraints": values} (the one-element list around the objective       *)
(* values, always read through [0], is left out).                          *)
(***************************************************************************)
EXTENDS Integers, Sequences, FiniteSets, TLC

VARIABLES pop, kind, k, op, ret

vars == <<pop, kind, k, op, ret>>

(***************************************************************************)
(* Bounds of the model.                                                    *)
(***************************************************************************)
MaxN == 3        \* largest population
MaxVal == 1      \* objective values range over 0..MaxVal
MaxObj == 3      \* plain fitnesses have 2..MaxObj objectives
NObjC == 2       \* constrained fitnesses have NObjC objectives
MaxViol == 2     \* a constraint violation ranges over 0..MaxViol

(***************************************************************************)
(* Generic helpers: Python list and builtin behaviour.                     *)
(***************************************************************************)
Max(a, b) == IF a >= b THEN a ELSE b

Min(a, b) == IF a <= b THEN a ELSE b

Abs(a) == IF a >= 0 THEN a ELSE 0 - a

Range(s) == {s[i] : i \in DOMAIN s}

\* s[:n]
Take(s, n) == SubSeq(s, 1, Min(n, Len(s)))

\* s[n:]
Drop(s, n) == SubSeq(s, n + 1, Len(s))

\* list.insert(idx, x) with a 0-based idx
InsertAt(s, idx, x) == Take(s, idx) \o <<x>> \o Drop(s, idx)

\* del s[idx] with a 0-based idx
DeleteAt(s, idx) == Take(s, idx) \o Drop(s, idx + 1)

RECURSIVE SumSeq(_)
\* np.sum of a vector
SumSeq(s) == IF s = <<>> THEN 0 ELSE s[1] + SumSeq(Tail(s))

RECURSIVE Concat(_)
Concat(ss) == IF ss = <<>> THEN <<>> ELSE ss[1] \o Concat(Tail(ss))

\* tuple comparison a < b of Python (lexicographic)
RECURSIVE LexLess(_, _)
LexLess(a, b) ==
    IF b = <<>> THEN FALSE
    ELSE IF a = <<>> THEN TRUE
    ELSE IF a[1] # b[1] THEN a[1] < b[1]
    ELSE LexLess(Tail(a), Tail(b))

LexLeq(a, b) == a = b \/ LexLess(a, b)

(***************************************************************************)
(* Dominance tests.                                                        *)
(***************************************************************************)
RECURSIVE isDominatedLoop(_, _, _, _)
isDominatedLoop(wvalues1, wvalues2, i, not_equal) ==
    IF i > Min(Len(wvalues1), Len(wvalues2)) THEN not_equal
    ELSE IF wvalues1[i] > wvalues2[i] THEN FALSE
    ELSE isDominatedLoop(wvalues1, wvalues2, i + 1,
                         IF wvalues1[i] < wvalues2[i] THEN TRUE ELSE not_equal)

\* isDominated with the roles of its two arguments exchanged
isDominated_swapped(wvalues1, wvalues2) == isDominatedLoop(wvalues2, wvalues1, 1, FALSE)

\* TRUE iff wvalues2 dominates wvalues1
isDominated(wvalues1, wvalues2) == isDominatedLoop(wvalues1, wvalues2, 1, FALSE)

\* isDominated_constr with ">=" for ">" between two infeasible fitnesses
isDominated_constr_tie(wvalues1, wvalues2) ==
    LET c1 == SumSeq(wvalues1.constraints)
        c2 == SumSeq(wvalues2.constraints)
    IN  IF c1 = 0 /\ c2 # 0 THEN FALSE
        ELSE IF c1 # 0 /\ c2 = 0 THEN TRUE
        ELSE IF c1 # 0 /\ c2 # 0 THEN c1 >= c2
        ELSE isDominated(wvalues1.objectives, wvalues2.objectives)

isDominated_constr(wvalues1, wvalues2) ==
    LET c1 == SumSeq(wvalues1.constraints)
        c2 == SumSeq(wvalues2.constraints)
    IN  IF c1 = 0 /\ c2 # 0 THEN FALSE
        ELSE IF c1 # 0 /\ c2 = 0 THEN TRUE
        ELSE IF c1 # 0 /\ c2 # 0 THEN c1 > c2
        ELSE isDominated(wvalues1.objectives, wvalues2.objectives)

(***************************************************************************)
(* Naive sort: dominance counting and front peeling.                       *)
(* A ranking state holds dominating_fits (the number of recorded           *)
(* dominators of each key), dominated_fits (the keys each key is recorded  *)
(* to dominate, in append order) and current_front.                        *)
(***************************************************************************)
RankInit(keys) ==
    [dominating_fits |-> [x \in keys |-> 0],
     dominated_fits  |-> [x \in keys |-> <<>>],
     current_front   |-> <<>>]

\* the body of "for fit_j in fits[i+1:]" of sortNondominated
RankPair(P, fit_i, fit_j, st) ==
    IF isDominated(P[fit_j], P[fit_i])
    THEN [st EXCEPT !.dominating_fits[fit_j] = @ + 1,
                    !.dominated_fits[fit_i] = Append(@, fit_j)]
    ELSE IF isDominated(P[fit_i], P[fit_j])
    THEN [st EXCEPT !.dominating_fits[fit_i] = @ + 1,
                    !.dominated_fits[fit_j] = Append(@, fit_i)]
    ELSE st

RECURSIVE RankInner(_, _, _, _, _)
RankInner(P, fits, i, j, st) ==
    IF j > Len(fits) THEN st
    ELSE RankInner(P, fits, i, j + 1, RankPair(P, fits[i], fits[j], st))

RECURSIVE RankFirstFront(_, _, _, _)
\* "for i, fit_i in enumerate(fits)" of sortNondominated
RankFirstFront(P, fits, i, st) ==
    IF i > Len(fits) THEN st
    ELSE LET s1 == RankInner(P, fits, i, i + 1, st)
             s2 == IF s1.dominating_fits[fits[i]] = 0
                   THEN [s1 EXCEPT !.current_front = Append(@, fits[i])]
                   ELSE s1
         IN  RankFirstFront(P, fits, i + 1, s2)

RECURSIVE PeelDominated_early(_, _, _)
\* PeelDominated that puts fit_d in the next front as soon as one of its
\* dominators is placed
PeelDominated_early(ds, j, ps) ==
    IF j > Len(ds) THEN ps
    ELSE PeelDominated_early(ds, j + 1,
             [ps EXCEPT !.dominating_fits[ds[j]] = @ - 1,
                        !.next_front = Append(@, ds[j]),
                        !.pareto_sorted = @ + 1,
                        !.last = Append(@, ds[j])])

RECURSIVE PeelDominated(_, _, _)
\* "for fit_d in dominated_fits[fit_p]"; ps holds dominating_fits,
\* next_front, pareto_sorted and last (the front being filled, fronts[-1])
PeelDominated(ds, j, ps) ==
    IF j > Len(ds) THEN ps
    ELSE LET fit_d == ds[j]
             c == ps.dominating_fits[fit_d] - 1
             p1 == [ps EXCEPT !.dominating_fits[fit_d] = c]
             p2 == IF c = 0
                   THEN [p1 EXCEPT !.next_front = Append(@, fit_d),
                                   !.pareto_sorted = @ + 1,
                                   !.last = Append(@, fit_d)]
                   ELSE p1
         IN  PeelDominated(ds, j + 1, p2)

RECURSIVE PeelFront(_, _, _, _)
\* "for fit_p in current_front"
PeelFront(dominated_fits, current_front, i, ps) ==
    IF i > Len(current_front) THEN ps
    ELSE PeelFront(dominated_fits, current_front, i + 1,
                   PeelDominated(dominated_fits[current_front[i]], 1, ps))

RECURSIVE PeelLoop(_, _, _, _, _, _)
\* "while pareto_sorted < N".  With an empty current_front and
\* pareto_sorted < N the loop appends empty fronts for ever: status "hang".
PeelLoop(dominated_fits, dominating_fits, current_front, fronts, pareto_sorted, N) ==
    IF ~(pareto_sorted < N) THEN [status |-> "ok", fronts |-> fronts]
    ELSE IF current_front = <<>> THEN [status |-> "hang", fronts |-> fronts]
    ELSE LET ps == PeelFront(dominated_fits, current_front, 1,
                             [dominating_fits |-> dominating_fits,
                              next_front |-> <<>>,
                              pareto_sorted |-> pareto_sorted,
                              last |-> <<>>])
         IN  PeelLoop(dominated_fits, ps.dominating_fits, ps.next_front,
                      Append(fronts, ps.last), ps.pareto_sorted, N)

\* the value of "return []" under "if k == 0"
EmptyReturn == [status |-> "ok", fronts |-> <<>>]

\* an index into an empty list: pop[0] or sorted(pop)[0] of an empty pop
IndexError == [status |-> "error", error |-> "IndexError"]

\* sortNondominated(pop, k), first_front_only = False
sortNondominated(P, kk) ==
    IF kk = 0 THEN EmptyReturn
    ELSE LET fits == [i \in 1..Len(P) |-> i]
             st == RankFirstFront(P, fits, 1, RankInit(Range(fits)))
         IN  PeelLoop(st.dominated_fits, st.dominating_fits, st.current_front,
                      <<st.current_front>>, Len(st.current_front),
                      Min(Len(P), kk))

(***************************************************************************)
(* Fast sort (generalized reduced run-time non-dominated sort).            *)
(* A fitness is a tuple; Python's fit[obj] (0-based) is fit[obj + 1] here. *)
(* front maps each unique fitness to its front number.                     *)
(***************************************************************************)
RECURSIVE InsertSorted(_, _)
InsertSorted(s, x) ==
    IF s = <<>> THEN <<x>>
    ELSE IF x < s[1] THEN <<x>> \o s
    ELSE <<s[1]>> \o InsertSorted(Tail(s), x)

RECURSIVE SortInts(_)
\* sorted(values), ascending
SortInts(s) == IF s = <<>> THEN <<>> ELSE InsertSorted(SortInts(Take(s, Len(s) - 1)), s[Len(s)])

\* list(map(itemgetter(obj), fitnesses))
Column(fitnesses, obj) == [i \in 1..Len(fitnesses) |-> fitnesses[i][obj + 1]]

\* median(seq, itemgetter(obj)), returned doubled so that the mean of the
\* two middle values of an even-length list stays an integer: every
\* comparison "fit[obj] > median_" is taken as "2 * fit[obj] > median2".
median2(seq, obj) ==
    LET sseq == SortInts(Column(seq, obj))
        length == Len(seq)
    IN  IF length % 2 = 1
        THEN 2 * sseq[((length - 1) \div 2) + 1]
        ELSE sseq[((length - 1) \div 2) + 1] + sseq[(length \div 2) + 1]

RECURSIVE SelectSeq2(_, _, _, _)
\* the elements of s, in order, whose obj value compares to the doubled
\* median m2 as mode says: "gt" (>), "ge" (>=), "lt" (<), "le" (<=)
SelectSeq2(s, obj, m2, mode) ==
    IF s = <<>> THEN <<>>
    ELSE LET v == 2 * s[1][obj + 1]
             keep == CASE mode = "gt" -> v > m2
                       [] mode = "ge" -> v >= m2
                       [] mode = "lt" -> v < m2
                       [] OTHER       -> v <= m2
             rest == SelectSeq2(Tail(s), obj, m2, mode)
         IN  IF keep THEN <<s[1]>> \o rest ELSE rest

splitA(fitnesses, obj) ==
    LET median_ == median2(fitnesses, obj)
        best_a  == SelectSeq2(fitnesses, obj, median_, "ge")
        worst_a == SelectSeq2(fitnesses, obj, median_, "lt")
        best_b  == SelectSeq2(fitnesses, obj, median_, "gt")
        worst_b == SelectSeq2(fitnesses, obj, median_, "le")
        balance_a == Abs(Len(best_a) - Len(worst_a))
        balance_b == Abs(Len(best_b) - Len(worst_b))
    IN  IF balance_a <= balance_b
        THEN [best |-> best_a, worst |-> worst_a]
        ELSE [best |-> best_b, worst |-> worst_b]

splitB(best, worst, obj) ==
    LET median_ == median2(IF Len(best) > Len(worst) THEN best ELSE worst, obj)
        best1_a  == SelectSeq2(best, obj, median_, "ge")
        best2_a  == SelectSeq2(best, obj, median_, "lt")
        best1_b  == SelectSeq2(best, obj, median_, "gt")
        best2_b  == SelectSeq2(best, obj, median_, "le")
        worst1_a == SelectSeq2(worst, obj, median_, "ge")
        worst2_a == SelectSeq2(worst, obj, median_, "lt")
        worst1_b == SelectSeq2(worst, obj, median_, "gt")
        worst2_b == SelectSeq2(worst, obj, median_, "le")
        balance_a == Abs(Len(best1_a) - Len(best2_a) + Len(worst1_a) - Len(worst2_a))
        balance_b == Abs(Len(best1_b) - Len(best2_b) + Len(worst1_b) - Len(worst2_b))
    IN  IF balance_a <= balance_b
        THEN [best1 |-> best1_a, best2 |-> best2_a, worst1 |-> worst1_a, worst2 |-> worst2_a]
        ELSE [best1 |-> best1_b, best2 |-> best2_b, worst1 |-> worst1_b, worst2 |-> worst2_b]

RECURSIVE bisectLoop(_, _, _, _)
bisectLoop(a, x, lo, hi) ==
    IF ~(lo < hi) THEN lo
    ELSE LET mid == (lo + hi) \div 2
             less == x < a[mid + 1]
         IN  bisectLoop(a, x, IF less THEN lo ELSE mid + 1, IF less THEN mid ELSE hi)

\* bisect.bisect_right(a, x), a 0-based insertion index
bisect_right(a, x) == bisectLoop(a, x, 0, Len(a))

RECURSIVE MaxFrontOf(_, _)
\* front[max(fs, key=front.__getitem__)] for a non-empty fs
MaxFrontOf(fs, front) ==
    IF Len(fs) = 1 THEN front[fs[1]]
    ELSE Max(front[fs[1]], MaxFrontOf(Tail(fs), front))

RECURSIVE FirstSameFront(_, _, _, _)
\* the first 0-based index i >= from with front[fstairs[i]] = r, or -1
FirstSameFront(fstairs, front, r, from) ==
    IF from >= Len(fstairs) THEN 0 - 1
    ELSE IF front[fstairs[from + 1]] = r THEN from
    ELSE FirstSameFront(fstairs, front, r, from + 1)

\* the body of "for fit in fitnesses[1:]" of sweepA
sweepAStep(fit, s) ==
    LET idx == bisect_right(s.stairs, 0 - fit[2])
        front1 == IF 0 < idx /\ idx <= Len(s.stairs)
                  THEN [s.front EXCEPT ![fit] =
                           Max(@, MaxFrontOf(Take(s.fstairs, idx), s.front) + 1)]
                  ELSE s.front
        i == FirstSameFront(s.fstairs, front1, front1[fit], idx)
        stairs1  == IF i >= 0 THEN DeleteAt(s.stairs, i) ELSE s.stairs
        fstairs1 == IF i >= 0 THEN DeleteAt(s.fstairs, i) ELSE s.fstairs
    IN  [stairs  |-> InsertAt(stairs1, idx, 0 - fit[2]),
         fstairs |-> InsertAt(fstairs1, idx, fit),
         front   |-> front1]

RECURSIVE sweepALoop(_, _, _)
sweepALoop(fitnesses, n, s) ==
    IF n > Len(fitnesses) THEN s
    ELSE sweepALoop(fitnesses, n + 1, sweepAStep(fitnesses[n], s))

sweepA(fitnesses, front) ==
    sweepALoop(fitnesses, 2,
               [stairs  |-> <<0 - fitnesses[1][2]>>,
                fstairs |-> <<fitnesses[1]>>,
                front   |-> front]).front

\* the body of "while next_best and h[:2] <= next_best[:2]" of sweepB
sweepBInsert(next_best, s) ==
    LET i == FirstSameFront(s.fstairs, s.front, s.front[next_best], 0)
        insert == ~(i >= 0 /\ s.fstairs[i + 1][2] > next_best[2])
        del == i >= 0 /\ ~(s.fstairs[i + 1][2] > next_best[2])
        stairs1  == IF del THEN DeleteAt(s.stairs, i) ELSE s.stairs
        fstairs1 == IF del THEN DeleteAt(s.fstairs, i) ELSE s.fstairs
        idx == bisect_right(stairs1, 0 - next_best[2])
    IN  [s EXCEPT !.stairs  = IF insert THEN InsertAt(stairs1, idx, 0 - next_best[2]) ELSE stairs1,
                  !.fstairs = IF insert THEN InsertAt(fstairs1, idx, next_best) ELSE fstairs1,
                  !.nb = @ + 1]

RECURSIVE sweepBWhile(_, _, _)
\* s.nb is the position in best of next_best; past the end when the
\* iterator is exhausted (next_best is False)
sweepBWhile(best, h, s) ==
    IF s.nb <= Len(best) /\ LexLeq(Take(h, 2), Take(best[s.nb], 2))
    THEN sweepBWhile(best, h, sweepBInsert(best[s.nb], s))
    ELSE s

RECURSIVE sweepBLoop(_, _, _, _)
\* "for h in worst" of sweepB
sweepBLoop(best, worst, n, s) ==
    IF n > Len(worst) THEN s
    ELSE LET h == worst[n]
             s1 == sweepBWhile(best, h, s)
             idx == bisect_right(s1.stairs, 0 - h[2])
             s2 == IF 0 < idx /\ idx <= Len(s1.stairs)
                   THEN [s1 EXCEPT !.front[h] =
                            Max(@, MaxFrontOf(Take(s1.fstairs, idx), s1.front) + 1)]
                   ELSE s1
         IN  sweepBLoop(best, worst, n + 1, s2)

sweepB(best, worst, front) ==
    sweepBLoop(best, worst, 1,
               [stairs |-> <<>>, fstairs |-> <<>>, front |-> front, nb |-> 1]).front

RECURSIVE MinInts(_)
MinInts(s) == IF Len(s) = 1 THEN s[1] ELSE Min(s[1], MinInts(Tail(s)))

RECURSIVE MaxInts(_)
MaxInts(s) == IF Len(s) = 1 THEN s[1] ELSE Max(s[1], MaxInts(Tail(s)))

RECURSIVE compareBest(_, _, _, _, _)
\* "for li in best" of the direct comparison of sortNDHelperB
compareBest(hi, best, n, obj, front) ==
    IF n > Len(best) THEN front
    ELSE LET li == best[n]
             f1 == IF \/ isDominated(Take(hi, obj + 1), Take(li, obj + 1))
                      \/ Take(hi, obj + 1) = Take(li, obj + 1)
                   THEN [front EXCEPT ![hi] = Max(@, front[li] + 1)]
                   ELSE front
         IN  compareBest(hi, best, n + 1, obj, f1)

RECURSIVE compareDirect(_, _, _, _, _)
\* "for hi in worst" of the direct comparison of sortNDHelperB
compareDirect(best, worst, n, obj, front) ==
    IF n > Len(worst) THEN front
    ELSE compareDirect(best, worst, n + 1, obj,
                       compareBest(worst[n], best, 1, obj, front))

\* the three recursive calls of sortNDHelperA after splitA
splitACalls(sp, obj) ==
    <<[h |-> "A", fitnesses |-> sp.best, obj |-> obj],
      [h |-> "B", best |-> sp.best, worst |-> sp.worst, obj |-> obj - 1],
      [h |-> "A", fitnesses |-> sp.worst, obj |-> obj]>>

\* splitBCalls without the call that compares best1 with worst2 on one
\* objective less
splitBCalls_two(sp, obj) ==
    <<[h |-> "B", best |-> sp.best1, worst |-> sp.worst1, obj |-> obj],
      [h |-> "B", best |-> sp.best2, worst |-> sp.worst2, obj |-> obj]>>

\* the three recursive calls of sortNDHelperB after splitB
splitBCalls(sp, obj) ==
    <<[h |-> "B", best |-> sp.best1, worst |-> sp.worst1, obj |-> obj],
      [h |-> "B", best |-> sp.best1, worst |-> sp.worst2, obj |-> obj - 1],
      [h |-> "B", best |-> sp.best2, worst |-> sp.worst2, obj |-> obj]>>

RECURSIVE sortNDHelperA(_, _, _), sortNDHelperB(_, _, _, _), sortNDCalls(_, _)
\* Recursive calls made one after the other on the same front mapping:
\* each call is [h |-> "A", fitnesses, obj] for sortNDHelperA or
\* [h |-> "B", best, worst, obj] for sortNDHelperB
sortNDCalls(calls, front) ==
    IF calls = <<>> THEN front
    ELSE LET c == calls[1]
         IN  sortNDCalls(Tail(calls),
                         IF c.h = "A" THEN sortNDHelperA(c.fitnesses, c.obj, front)
                         ELSE sortNDHelperB(c.best, c.worst, c.obj, front))

sortNDHelperB(best, worst, obj, front) ==
    IF Len(worst) = 0 \/ Len(best) = 0 THEN front
    ELSE IF Len(best) = 1 \/ Len(worst) = 1
    THEN compareDirect(best, worst, 1, obj, front)
    ELSE IF obj = 1 THEN sweepB(best, worst, front)
    ELSE IF MinInts(Column(best, obj)) >= MaxInts(Column(worst, obj))
    THEN sortNDCalls(<<[h |-> "B", best |-> best, worst |-> worst, obj |-> obj - 1]>>, front)
    ELSE IF MaxInts(Column(best, obj)) >= MinInts(Column(worst, obj))
    THEN sortNDCalls(splitBCalls(splitB(best, worst, obj), obj), front)
    ELSE front

sortNDHelperA(fitnesses, obj, front) ==
    IF Len(fitnesses) < 2 THEN front
    ELSE IF Len(fitnesses) = 2
    THEN LET s1 == fitnesses[1]
             s2 == fitnesses[2]
         IN  IF isDominated(Take(s2, obj + 1), Take(s1, obj + 1))
             THEN [front EXCEPT ![s2] = Max(@, front[s1] + 1)]
             ELSE front
    ELSE IF obj = 1 THEN sweepA(fitnesses, front)
    ELSE IF Cardinality(Range(Column(fitnesses, obj))) = 1
    THEN sortNDCalls(<<[h |-> "A", fitnesses |-> fitnesses, obj |-> obj - 1]>>, front)
    ELSE sortNDCalls(splitACalls(splitA(fitnesses, obj), obj), front)

RECURSIVE InsertDesc(_, _)
InsertDesc(s, x) ==
    IF s = <<>> THEN <<x>>
    ELSE IF LexLess(s[1], x) THEN <<x>> \o s
    ELSE <<s[1]>> \o InsertDesc(Tail(s), x)

RECURSIVE SortDesc(_)
\* fitnesses.sort(reverse=True) on a list of tuples
SortDesc(s) == IF s = <<>> THEN <<>> ELSE InsertDesc(SortDesc(Take(s, Len(s) - 1)), s[Len(s)])

RECURSIVE UniqueKeys(_, _)
\* list(unique_fits.keys()): the distinct fitnesses fs[i], i in order, in
\* order of first appearance
UniqueKeys(fs, seen) ==
    IF fs = <<>> THEN <<>>
    ELSE LET rest == UniqueKeys(Tail(fs), seen \cup {fs[1]})
         IN  IF fs[1] \in seen THEN rest ELSE <<fs[1]>> \o rest

RECURSIVE KeysWhere(_, _, _)
\* the keys i >= n of P, in order, with Test[i]
KeysWhere(Test, N, n) ==
    IF n > N THEN <<>>
    ELSE LET rest == KeysWhere(Test, N, n + 1)
         IN  IF Test[n] THEN <<n>> \o rest ELSE rest

RECURSIVE MaxRank(_, _)
\* max(front.values())
MaxRank(fitnesses, front) ==
    IF Len(fitnesses) = 1 THEN front[fitnesses[1]]
    ELSE Max(front[fitnesses[1]], MaxRank(Tail(fitnesses), front))

RECURSIVE KeepFronts_short(_, _, _, _)
\* KeepFronts returning pareto_fronts[:i] for pareto_fronts[:i+1]
KeepFronts_short(pareto_fronts, i, count, kk) ==
    IF i > Len(pareto_fronts) THEN pareto_fronts
    ELSE IF count + Len(pareto_fronts[i]) >= kk THEN Take(pareto_fronts, i - 1)
    ELSE KeepFronts_short(pareto_fronts, i + 1, count + Len(pareto_fronts[i]), kk)

RECURSIVE KeepFronts(_, _, _, _)
\* "for i, front in enumerate(pareto_fronts)": the fronts needed to have k
KeepFronts(pareto_fronts, i, count, kk) ==
    IF i > Len(pareto_fronts) THEN pareto_fronts
    ELSE IF count + Len(pareto_fronts[i]) >= kk THEN Take(pareto_fronts, i)
    ELSE KeepFronts(pareto_fronts, i + 1, count + Len(pareto_fronts[i]), kk)

\* ExtractFronts that puts in a front only the first individual of each
\* fitness
ExtractFronts_first(fitnesses, front, fitOf, members, nbfronts) ==
    [r \in 1..nbfronts |->
        Concat([n \in 1..Len(fitnesses) |->
                  IF front[fitnesses[n]] = r - 1
                  THEN Take(SelectSeq(members, LAMBDA x : fitOf[x] = fitnesses[n]), 1)
                  ELSE <<>>])]

\* pareto_fronts[index].extend(unique_fits[fit]) for fit in fitnesses:
\* front r lists, for each fitness of rank r in the order of fitnesses,
\* the keys that have this fitness (fitOf[key]) in population order
ExtractFronts(fitnesses, front, fitOf, members, nbfronts) ==
    [r \in 1..nbfronts |->
        Concat([n \in 1..Len(fitnesses) |->
                  IF front[fitnesses[n]] = r - 1
                  THEN SelectSeq(members, LAMBDA x : fitOf[x] = fitnesses[n])
                  ELSE <<>>])]

\* "nbfronts = max(front.values()) + 1" and the extraction of the
\* individuals from front and unique_fits
ParetoFronts(fitnesses, front, fitOf, members) ==
    ExtractFronts(fitnesses, front, fitOf, members, MaxRank(fitnesses, front) + 1)

\* the sort of the unique fitnesses, sorted in decreasing order, and the
\* fronts made from it
sortLogFronts(fitnesses, obj, fitOf, members) ==
    ParetoFronts(fitnesses,
                 sortNDHelperA(fitnesses, obj, [f \in Range(fitnesses) |-> 0]),
                 fitOf, members)

\* sortLogNondominated(pop, k), first_front_only = False; on an empty pop
\* "obj = len(pop[0][1][2])-1" raises
sortLogNondominated(P, kk) ==
    IF kk = 0 THEN EmptyReturn
    ELSE IF P = <<>> THEN IndexError
    ELSE [status |-> "ok",
          fronts |-> KeepFronts(sortLogFronts(SortDesc(UniqueKeys(P, {})), Len(P[1]) - 1,
                                              P, [i \in 1..Len(P) |-> i]),
                                1, 0, kk)]

(***************************************************************************)
(* Constraint-aware sorts.  P is a sequence of records                     *)
(* [objectives, constraints].                                              *)
(***************************************************************************)
\* np.sum(tuple(ind[1][2].items())[1][1]): the total constraint violation
Violation(fit) == SumSeq(fit.constraints)

RECURSIVE InsertByViolation(_, _, _)
InsertByViolation(s, x, P) ==
    IF s = <<>> THEN <<x>>
    ELSE IF Violation(P[x]) < Violation(P[s[1]]) THEN <<x>> \o s
    ELSE <<s[1]>> \o InsertByViolation(Tail(s), x, P)

RECURSIVE SortedByViolation(_, _)
\* sorted(items, key=violation): stable, increasing violation
SortedByViolation(items, P) ==
    IF items = <<>> THEN <<>>
    ELSE InsertByViolation(SortedByViolation(Take(items, Len(items) - 1), P),
                           items[Len(items)], P)

\* AllInfeasibleReturn without the sort by violation
AllInfeasibleReturn_unsorted(P) ==
    LET sorted == [i \in 1..Len(P) |-> i]
    IN  IF sorted = <<>> THEN IndexError
        ELSE [status |-> "ok",
              fronts |-> <<<<sorted[1]>>, Tail(sorted)>>,
              flag   |-> TRUE]

\* the value returned when no individual is feasible; sorted(pop)[0]
\* raises on an empty pop
AllInfeasibleReturn(P) ==
    LET sorted == SortedByViolation([i \in 1..Len(P) |-> i], P)
    IN  IF sorted = <<>> THEN IndexError
        ELSE [status |-> "ok",
              fronts |-> <<<<sorted[1]>>, Tail(sorted)>>,
              flag   |-> TRUE]

\* the body of "for fit_j in fits[i+1:]" of sortNondominated_constr: both
\* branches test isDominated_constr(A, B)
RankPair_constr(P, fit_i, fit_j, st) ==
    LET A == P[fit_j]
        B == P[fit_i]
    IN  IF isDominated_constr(A, B)
        THEN [st EXCEPT !.dominating_fits[fit_j] = @ + 1,
                        !.dominated_fits[fit_i] = Append(@, fit_j)]
        ELSE IF isDominated_constr(A, B)
        THEN [st EXCEPT !.dominating_fits[fit_i] = @ + 1,
                        !.dominated_fits[fit_j] = Append(@, fit_i)]
        ELSE st

RECURSIVE RankInner_constr(_, _, _, _, _)
RankInner_constr(P, fits, i, j, st) ==
    IF j > Len(fits) THEN st
    ELSE RankInner_constr(P, fits, i, j + 1, RankPair_constr(P, fits[i], fits[j], st))

RECURSIVE RankFirstFront_constr(_, _, _, _)
\* "for i, fit_i in enumerate(fits)" of sortNondominated_constr
RankFirstFront_constr(P, fits, i, st) ==
    IF i > Len(fits) THEN st
    ELSE LET s1 == RankInner_constr(P, fits, i, i + 1, st)
             s2 == IF s1.dominating_fits[fits[i]] = 0
                   THEN [s1 EXCEPT !.current_front = Append(@, fits[i])]
                   ELSE s1
         IN  RankFirstFront_constr(P, fits, i + 1, s2)

\* sortNondominated_constr(pop, k), first_front_only = False
sortNondominated_constr(P, kk) ==
    IF kk = 0 THEN EmptyReturn ELSE
    LET feas == [i \in 1..Len(P) |-> Violation(P[i]) = 0]
        map_fit_ind == KeysWhere(feas, Len(P), 1)
        unfeasible_fits == KeysWhere([i \in 1..Len(P) |-> ~feas[i]], Len(P), 1)
    IN  IF map_fit_ind = <<>> THEN AllInfeasibleReturn(P)
        ELSE LET fits == map_fit_ind \o unfeasible_fits
                 st == RankFirstFront_constr(P, fits, 1, RankInit(Range(fits)))
                 r == PeelLoop(st.dominated_fits, st.dominating_fits,
                               st.current_front, <<st.current_front>>,
                               Len(st.current_front), Min(Len(P), kk))
             IN  [status |-> r.status, fronts |-> r.fronts, flag |-> FALSE]

RECURSIVE sortNDHelperA_constr(_, _, _), sortNDHelperB_constr(_, _, _, _), sortNDCalls_constr(_, _)
\* Recursive calls made one after the other on the same front mapping:
\* each call is [h |-> "A", fitnesses, obj] for sortNDHelperA_constr or
\* [h |-> "B", best, worst, obj] for sortNDHelperB_constr
sortNDCalls_constr(calls, front) ==
    IF calls = <<>> THEN front
    ELSE LET c == calls[1]
         IN  sortNDCalls_constr(Tail(calls),
                         IF c.h = "A" THEN sortNDHelperA_constr(c.fitnesses, c.obj, front)
                         ELSE sortNDHelperB_constr(c.best, c.worst, c.obj, front))

sortNDHelperB_constr(best, worst, obj, front) ==
    IF Len(worst) = 0 \/ Len(best) = 0 THEN front
    ELSE IF Len(best) = 1 \/ Len(worst) = 1
    THEN compareDirect(best, worst, 1, obj, front)
    ELSE IF obj = 1 THEN sweepB(best, worst, front)
    ELSE IF MinInts(Column(best, obj)) >= MaxInts(Column(worst, obj))
    THEN sortNDCalls_constr(<<[h |-> "B", best |-> best, worst |-> worst, obj |-> obj - 1]>>, front)
    ELSE IF MaxInts(Column(best, obj)) >= MinInts(Column(worst, obj))
    THEN sortNDCalls_constr(splitBCalls(splitB(best, worst, obj), obj), front)
    ELSE front

sortNDHelperA_constr(fitnesses, obj, front) ==
    IF Len(fitnesses) < 2 THEN front
    ELSE IF Len(fitnesses) = 2
    THEN LET s1 == fitnesses[1]
             s2 == fitnesses[2]
         IN  IF isDominated(Take(s2, obj + 1), Take(s1, obj + 1))
             THEN [front EXCEPT ![s2] = Max(@, front[s1] + 1)]
             ELSE front
    ELSE IF obj = 1 THEN sweepA(fitnesses, front)
    ELSE IF Cardinality(Range(Column(fitnesses, obj))) = 1
    THEN sortNDCalls_constr(<<[h |-> "A", fitnesses |-> fitnesses, obj |-> obj - 1]>>, front)
    ELSE sortNDCalls_constr(splitACalls(splitA(fitnesses, obj), obj), front)

\* the sort of the unique feasible fitnesses, sorted in decreasing order,
\* and the fronts of feasible individuals made from it
sortLogFronts_constr(fitnesses, obj, fitOf, members) ==
    ParetoFronts(fitnesses,
                 sortNDHelperA_constr(fitnesses, obj, [f \in Range(fitnesses) |-> 0]),
                 fitOf, members)

\* "pareto_fronts[-1].append(item)" for each item of the infeasible
\* individuals sorted by violation
AppendInfeasible(pareto_fronts, sorted_unfeasible) ==
    [pareto_fronts EXCEPT ![Len(pareto_fronts)] = @ \o sorted_unfeasible]

\* sortLogNondominated_constr(pop, k), first_front_only = False,
\* members being the feasible keys and unfeasible_fits the other keys
sortLog_constr(P, kk, members, unfeasible_fits) ==
    IF kk = 0 THEN EmptyReturn
    ELSE IF P = <<>> THEN IndexError
    ELSE IF members = <<>> THEN AllInfeasibleReturn(P)
    ELSE [status |-> "ok",
          fronts |-> KeepFronts(
                         AppendInfeasible(
                             sortLogFronts_constr(
                                 SortDesc(UniqueKeys([n \in 1..Len(members) |->
                                                         P[members[n]].objectives], {})),
                                 Len(P[1].objectives) - 1,
                                 [i \in 1..Len(P) |-> P[i].objectives],
                                 members),
                             SortedByViolation(unfeasible_fits, P)),
                         1, 0, kk),
          flag   |-> FALSE]

sortLogNondominated_constr(P, kk) ==
    sortLog_constr(P, kk,
                   KeysWhere([i \in 1..Len(P) |-> Violation(P[i]) = 0], Len(P), 1),
                   KeysWhere([i \in 1..Len(P) |-> Violation(P[i]) # 0], Len(P), 1))

(***************************************************************************)
(* State machine: a population is given (kind "plain" or "constr"), then   *)
(* one sort is called on it with some k >= 0.  For the dominance tests     *)
(* themselves pop is a pair of fitnesses (kind "pair": plain vectors,      *)
(* kind "pair_constr": constrained records) and the call compares them.    *)
(***************************************************************************)
ObjCounts == 2..MaxObj

PlainFitnesses(M) == [1..M -> 0..MaxVal]

ConstrFitnesses(M, C) ==
    [objectives : PlainFitnesses(M), constraints : [1..C -> 0..MaxViol]]

PlainPops ==
    UNION {UNION {[1..n -> PlainFitnesses(M)] : n \in 0..MaxN} : M \in ObjCounts}

ConstrPops ==
    UNION {[1..n -> ConstrFitnesses(NObjC, 1)] : n \in 0..MaxN}

PlainPairs ==
    UNION {[1..2 -> PlainFitnesses(M)] : M \in ObjCounts}

ConstrPairs ==
    [1..2 -> ConstrFitnesses(NObjC, 1) \cup ConstrFitnesses(NObjC, 2)]

NoRet == [status |-> "none"]

Init ==
    /\ \/ kind = "plain" /\ pop \in PlainPops
       \/ kind = "constr" /\ pop \in ConstrPops
       \/ kind = "pair" /\ pop \in PlainPairs
       \/ kind = "pair_constr" /\ pop \in ConstrPairs
    /\ k = 0
    /\ op = "none"
    /\ ret = NoRet

CallSortNondominated ==
    /\ op = "none"
    /\ kind = "plain"
    /\ \E kk \in 0..(Len(pop) + 1) :
          /\ k' = kk
          /\ ret' = sortNondominated(pop, kk)
    /\ op' = "sortNondominated"
    /\ UNCHANGED <<pop, kind>>

CallSortLogNondominated ==
    /\ op = "none"
    /\ kind = "plain"
    /\ \E kk \in 0..(Len(pop) + 1) :
          /\ k' = kk
          /\ ret' = sortLogNondominated(pop, kk)
    /\ op' = "sortLogNondominated"
    /\ UNCHANGED <<pop, kind>>

CallSortNondominated_constr ==
    /\ op = "none"
    /\ kind = "constr"
    /\ \E kk \in 0..(Len(pop) + 1) :
          /\ k' = kk
          /\ ret' = sortNondominated_constr(pop, kk)
    /\ op' = "sortNondominated_constr"
    /\ UNCHANGED <<pop, kind>>

CallSortLogNondominated_constr ==
    /\ op = "none"
    /\ kind = "constr"
    /\ \E kk \in 0..(Len(pop) + 1) :
          /\ k' = kk
          /\ ret' = sortLogNondominated_constr(pop, kk)
    /\ op' = "sortLogNondominated_constr"
    /\ UNCHANGED <<pop, kind>>

CallIsDominated ==
    /\ op = "none"
    /\ kind = "pair"
    /\ ret' = [status |-> "ok", value |-> isDominated(pop[1], pop[2])]
    /\ op' = "isDominated"
    /\ UNCHANGED <<pop, kind, k>>

CallIsDominated_constr ==
    /\ op = "none"
    /\ kind = "pair_constr"
    /\ ret' = [status |-> "ok", value |-> isDominated_constr(pop[1], pop[2])]
    /\ op' = "isDominated_constr"
    /\ UNCHANGED <<pop, kind, k>>

Next ==
    \/ CallSortNondominated
    \/ CallSortLogNondominated
    \/ CallSortNondominated_constr
    \/ CallSortLogNondominated_constr
    \/ CallIsDominated
    \/ CallIsDominated_constr

Spec == Init /\ [][Next]_vars

(***************************************************************************)
(* The two plain sorts on larger populations: up to MaxNPlain individuals  *)
(* of up to MaxObjPlain objectives, any order, duplicates included.  With  *)
(* four distinct fitnesses of three objectives sortNDHelperB reaches       *)
(* sweepB, with four objectives it reaches splitB and its recursive calls. *)
(***************************************************************************)
MaxNPlain == 4

MaxObjPlain == 4

MaxValPlain == 1

WidePlainPops ==
    UNION {UNION {[1..n -> [1..M -> 0..MaxValPlain]] : n \in 0..MaxNPlain}
              : M \in 2..MaxObjPlain}

InitPlain ==
    /\ kind = "plain"
    /\ pop \in WidePlainPops
    /\ k = 0
    /\ op = "none"
    /\ ret = NoRet

NextPlain ==
    \/ CallSortNondominated
    \/ CallSortLogNondominated

SpecPlain == InitPlain /\ [][NextPlain]_vars

(***************************************************************************)
(* Vocabulary of the properties.                                           *)
(***************************************************************************)
PlainSorts == {"sortNondominated", "sortLogNondominated"}

ConstrSorts == {"sortNondominated_constr", "sortLogNondominated_constr"}

SortOps == PlainSorts \cup ConstrSorts

Keys == 1..Len(pop)

\* the population holds an individual
NonEmpty == Len(pop) >= 1

\* the sets of keys of the fronts, front by front
FrontSets(fronts) == [r \in 1..Len(fronts) |-> Range(fronts[r])]

\* all returned keys, in order
Returned == Concat(ret.fronts)

NoDuplicates(s) == \A i, j \in 1..Len(s) : s[i] = s[j] => i = j

\* the index (from 0) of the front that holds key x
FrontIndex(x) == (CHOOSE r \in 1..Len(ret.fronts) : x \in Range(ret.fronts[r])) - 1

Feasible(x) == \A c \in 1..Len(pop[x].constraints) : pop[x].constraints[c] = 0

\* the sort that was called, called again with another k
SortAgain(kk) ==
    CASE op = "sortNondominated"           -> sortNondominated(pop, kk)
      [] op = "sortLogNondominated"        -> sortLogNondominated(pop, kk)
      [] op = "sortNondominated_constr"    -> sortNondominated_constr(pop, kk)
      [] op = "sortLogNondominated_constr" -> sortLogNondominated_constr(pop, kk)

(***************************************************************************)
(* C1: on every non-empty plain population and every k >= 1 the naive sort *)
(* and the fast sort return the same number of fronts and the same set of  *)
(* keys in each front; only the order inside a front may differ.           *)
(***************************************************************************)
C1_NaiveFastSameFronts ==
    /\ (op = "sortNondominated" /\ k >= 1 /\ NonEmpty) =>
          /\ ret.status = "ok"
          /\ FrontSets(ret.fronts) = FrontSets(sortLogNondominated(pop, k).fronts)
    /\ (op = "sortLogNondominated" /\ k >= 1 /\ NonEmpty) =>
          /\ ret.status = "ok"
          /\ FrontSets(ret.fronts) = FrontSets(sortNondominated(pop, k).fronts)

\* the distinct fitnesses of pop as sortLogNondominated hands them to
\* sortNDHelperA
SortedFits == SortDesc(UniqueKeys(pop, {}))

\* the call of sortNDHelperB that sortNDHelperA makes after splitA on the
\* last objective takes, with best and worst of two fitnesses or more and
\* more than two objectives left, the branch that drops an objective
\* (every best at least every worst) and so ends in sweepB
HelperBDropsObjective(fitnesses, obj) ==
    /\ Len(fitnesses) > 2
    /\ obj - 1 = 2
    /\ Cardinality(Range(Column(fitnesses, obj))) > 1
    /\ LET sp == splitA(fitnesses, obj)
       IN  /\ Len(sp.best) >= 2
           /\ Len(sp.worst) >= 2
           /\ MinInts(Column(sp.best, obj - 1)) >= MaxInts(Column(sp.worst, obj - 1))

\* the fast sort has ranked four individuals of four objectives through
\* splitA, the objective-dropping branch of sortNDHelperB and sweepB, and
\* has found more than one front
C1_Witness ==
    /\ op = "sortLogNondominated"
    /\ k >= Len(pop)
    /\ Len(pop) = MaxNPlain
    /\ HelperBDropsObjective(SortedFits, Len(pop[1]) - 1)
    /\ Len(ret.fronts) >= 2

(***************************************************************************)
(* C2: on every non-empty constrained population and every k >= 1 the two  *)
(* constraint-aware sorts return the same number of fronts, the same set   *)
(* of keys in each front and the same degenerate-case flag.                *)
(***************************************************************************)
C2_ConstrNaiveFastSameFronts ==
    (op = "sortNondominated_constr" /\ k >= 1 /\ NonEmpty) =>
        LET fast == sortLogNondominated_constr(pop, k)
        IN  /\ ret.status = "ok"
            /\ FrontSets(ret.fronts) = FrontSets(fast.fronts)
            /\ ret.flag = fast.flag

(***************************************************************************)
(* C3: for each of the four sorts and any k >= 1, no key appears twice in  *)
(* the returned fronts and every returned key is a key of the population;  *)
(* when k >= N the returned fronts hold every individual exactly once.     *)
(***************************************************************************)
C3_FrontsPartition ==
    (op \in SortOps /\ k >= 1 /\ NonEmpty /\ ret.status = "ok") =>
        /\ NoDuplicates(Returned)
        /\ Range(Returned) \subseteq Keys
        /\ k >= Len(pop) => Range(Returned) = Keys

\* a fast constraint-aware sort, k >= N, has returned every individual of
\* a population that holds a duplicated feasible fitness and an infeasible
\* individual
C3_Witness ==
    /\ op = "sortLogNondominated_constr"
    /\ k >= Len(pop)
    /\ Len(pop) = MaxN
    /\ \E i, j \in Keys : i # j /\ pop[i] = pop[j] /\ Feasible(i)
    /\ \E i \in Keys : ~Feasible(i)
    /\ Len(Returned) = Len(pop)

(***************************************************************************)
(* C4: the first front returned by each sort is exactly the set of the     *)
(* individuals that no individual of the population dominates, dominance   *)
(* being isDominated for the plain sorts and isDominated_constr for the    *)
(* constraint-aware sorts (population with a feasible individual).         *)
(***************************************************************************)
C4_FirstFrontIsNondominatedSet ==
    /\ (op \in PlainSorts /\ k >= 1 /\ NonEmpty) =>
          Range(ret.fronts[1]) =
             {x \in Keys : \A y \in Keys : ~isDominated(pop[x], pop[y])}
    /\ (op \in ConstrSorts /\ k >= 1 /\ NonEmpty /\ \E x \in Keys : Feasible(x)) =>
          Range(ret.fronts[1]) =
             {x \in Keys : \A y \in Keys : ~isDominated_constr(pop[x], pop[y])}

(***************************************************************************)
(* C5: on a population of N >= 1 individuals and any k >= 1 each sort      *)
(* terminates without error and returns whole fronts (a prefix of the      *)
(* fronts of the complete sort) that hold at least min(k, N) individuals;  *)
(* with k > N all N individuals are returned.                              *)
(***************************************************************************)
C5_ReturnsEnoughWholeFronts ==
    (op \in SortOps /\ k >= 1 /\ NonEmpty) =>
        /\ ret.status = "ok"
        /\ Len(Returned) >= Min(k, Len(pop))
        /\ k > Len(pop) => Range(Returned) = Keys
        /\ ret.fronts = Take(SortAgain(Len(pop)).fronts, Len(ret.fronts))

\* a sort called with k below the population size has stopped before the
\* last front
C5_WitnessSmallK ==
    /\ op \in SortOps
    /\ k < Len(pop)
    /\ Len(Returned) > k
    /\ Len(ret.fronts) < Len(SortAgain(Len(pop)).fronts)

(***************************************************************************)
(* C6 as stated: isDominated(w1, w2) holds exactly when w2 is less than or *)
(* equal to w1 in every objective and strictly smaller in one (objectives  *)
(* minimized), and front 0 of the plain sorts is the set of the minimal    *)
(* objective vectors.                                                      *)
(***************************************************************************)
SmallerIsBetter(w1, w2) ==
    /\ \A i \in 1..Len(w1) : w2[i] <= w1[i]
    /\ \E i \in 1..Len(w1) : w2[i] < w1[i]

C6_DominanceMinimizes ==
    /\ op = "isDominated" => ret.value = SmallerIsBetter(pop[1], pop[2])
    /\ (op \in PlainSorts /\ k >= 1 /\ NonEmpty) =>
          Range(ret.fronts[1]) =
             {x \in Keys : \A y \in Keys : ~SmallerIsBetter(pop[x], pop[y])}

(***************************************************************************)
(* C6 amended: isDominated(w1, w2) holds exactly when w2 is greater than   *)
(* or equal to w1 in every (weighted) objective and strictly greater in at *)
(* least one, the weighted values being maximized; front 0 of the plain    *)
(* sorts is the set of the individuals with maximal vectors.               *)
(***************************************************************************)
GreaterIsBetter(w1, w2) ==
    /\ \A i \in 1..Len(w1) : w2[i] >= w1[i]
    /\ \E i \in 1..Len(w1) : w2[i] > w1[i]

C6_DominanceMaximizes ==
    /\ op = "isDominated" => ret.value = GreaterIsBetter(pop[1], pop[2])
    /\ (op \in PlainSorts /\ k >= 1 /\ NonEmpty) =>
          Range(ret.fronts[1]) =
             {x \in Keys : \A y \in Keys : ~GreaterIsBetter(pop[x], pop[y])}

\* isDominated has answered True on two vectors that agree in an objective
C6_Witness ==
    /\ op = "isDominated"
    /\ ret.value = TRUE
    /\ \E i \in 1..Len(pop[1]) : pop[1][i] = pop[2][i]

(***************************************************************************)
(* C7: isDominated_constr(x, y), "y dominates x", feasible meaning a zero  *)
(* total violation: True when y is feasible and x is not; False when x is  *)
(* feasible and y is not; when neither is feasible, True iff the total     *)
(* violation of y is strictly lower than that of x; when both are          *)
(* feasible, the result of isDominated on the two objective vectors.       *)
(***************************************************************************)
C7_ConstrainedDominanceTable ==
    op = "isDominated_constr" =>
        LET x == pop[1]
            y == pop[2]
        IN  /\ (Feasible(2) /\ ~Feasible(1)) => ret.value = TRUE
            /\ (~Feasible(2) /\ Feasible(1)) => ret.value = FALSE
            /\ (~Feasible(2) /\ ~Feasible(1)) =>
                  ret.value = (SumSeq(y.constraints) < SumSeq(x.constraints))
            /\ (Feasible(2) /\ Feasible(1)) =>
                  ret.value = isDominated(x.objectives, y.objectives)

\* two infeasible fitnesses with different violation vectors of the same
\* total: no domination, although y has the better objectives
C7_WitnessTie ==
    /\ op = "isDominated_constr"
    /\ ~Feasible(1) /\ ~Feasible(2)
    /\ pop[1].constraints # pop[2].constraints
    /\ SumSeq(pop[1].constraints) = SumSeq(pop[2].constraints)
    /\ isDominated(pop[1].objectives, pop[2].objectives)
    /\ ret.value = FALSE

(***************************************************************************)
(* C8: in both constraint-aware sorts with k >= N, the front index of      *)
(* every feasible individual is strictly smaller than the front index of   *)
(* every infeasible individual, whatever their objective values.           *)
(***************************************************************************)
C8_FeasibleInStrictlyEarlierFront ==
    (op \in ConstrSorts /\ k >= Len(pop)) =>
        \A a, b \in Keys :
            (Feasible(a) /\ ~Feasible(b)) => FrontIndex(a) < FrontIndex(b)

\* the keys of front s that are infeasible, in the order of the front
Infeasibles(s) == SelectSeq(s, LAMBDA x : ~Feasible(x))

NondecreasingViolation(s) ==
    \A i, j \in 1..Len(s) : i < j => Violation(pop[s[i]]) <= Violation(pop[s[j]])

Mixed == (\E x \in Keys : Feasible(x)) /\ (\E x \in Keys : ~Feasible(x))

(***************************************************************************)
(* C9: in both constraint-aware sorts of a population with a feasible and   *)
(* an infeasible individual, k >= N, every infeasible                      *)
(* individual is in the last returned front, the infeasible individuals    *)
(* appearing there in nondecreasing order of total violation.              *)
(***************************************************************************)
C9_InfeasibleInLastFrontSorted ==
    (op \in ConstrSorts /\ k >= Len(pop) /\ Mixed) =>
        /\ \A b \in Keys : ~Feasible(b) => FrontIndex(b) = Len(ret.fronts) - 1
        /\ NondecreasingViolation(Infeasibles(ret.fronts[Len(ret.fronts)]))

(***************************************************************************)
(* C10: when no individual is feasible and k >= 1, both constraint-aware   *)
(* sorts return, without error, exactly two pseudo-fronts and the flag     *)
(* True: first one individual of minimal total violation, then all the     *)
(* others in nondecreasing order of total violation; when an individual is *)
(* feasible the flag is False.                                             *)
(***************************************************************************)
C10_AllInfeasibleTwoFronts ==
    (op \in ConstrSorts /\ k >= 1 /\ NonEmpty) =>
        /\ ret.status = "ok"
        /\ (\A x \in Keys : ~Feasible(x)) =>
              /\ ret.flag = TRUE
              /\ Len(ret.fronts) = 2
              /\ Len(ret.fronts[1]) = 1
              /\ \A x \in Keys :
                    Violation(pop[ret.fronts[1][1]]) <= Violation(pop[x])
              /\ Range(ret.fronts[2]) = Keys \ {ret.fronts[1][1]}
              /\ Len(ret.fronts[2]) = Len(pop) - 1
              /\ NondecreasingViolation(ret.fronts[2])
        /\ (\E x \in Keys : Feasible(x)) => ret.flag = FALSE

\* an all-infeasible population whose least violating individual is not
\* the first one has been sorted with k below the population size
C10_Witness ==
    /\ op \in ConstrSorts
    /\ \A x \in Keys : ~Feasible(x)
    /\ Len(pop) = MaxN
    /\ k >= 1
    /\ k < Len(pop)
    /\ ret.flag = TRUE
    /\ ret.fronts[1] # <<1>>
    /\ \E i \in 1..(Len(ret.fronts[2]) - 1) : ret.fronts[2][i] > ret.fronts[2][i + 1]

(***************************************************************************)
(* C11: for each of the four sorts, a call with k = 0 (any population) and *)
(* a call on an empty population (any k) returns an empty result, no       *)
(* fronts and no individuals, and raises no error.                         *)
(***************************************************************************)
C11_EmptyCallReturnsEmpty ==
    (op \in SortOps /\ (k = 0 \/ ~NonEmpty)) =>
        /\ ret.status = "ok"
        /\ ret.fronts = <<>>

(***************************************************************************)
(* niching(pop, k, niches, distances, niche_counts).                       *)
(*                                                                         *)
(* The individuals are the indices of pop (index i of Python is i + 1      *)
(* here) and a niche is an index of niche_counts (likewise from 1).  In    *)
(* this part of the model the variable pop holds the arguments             *)
(* [niches, distances, niche_counts] and ret the locals of the call:       *)
(* selected, available, niche_counts (the caller's array, updated in       *)
(* place), selected_niches (what the for loop has still to visit) and      *)
(* rounds (the number of iterations of the while loop started).  op is     *)
(* the position in the code: "niching_while" at the test of the while      *)
(* loop, "niching_for" inside the for loop, "niching_return" after the     *)
(* return (or the raise).  np.random.shuffle is a choice of any order.     *)
(***************************************************************************)
MaxInd == 3      \* largest number of individuals given to niching
MaxNiche == 2    \* largest number of niches (reference points)
MaxDist == 1     \* distances range over 0..MaxDist
MaxCount == 1    \* initial niche counts range over 0..MaxCount

NichingInputs ==
    UNION {UNION {[niches : [1..n -> 1..R],
                   distances : [1..n -> 0..MaxDist],
                   niche_counts : [1..R -> 0..MaxCount]] : n \in 0..MaxInd} : R \in 1..MaxNiche}

InitNiching ==
    /\ kind = "niching"
    /\ pop \in NichingInputs
    /\ k = 0
    /\ op = "none"
    /\ ret = NoRet

\* np.unique(niches[available]): the niches that hold an available individual
AvailableNiches(niches, available) ==
    {niches[i] : i \in {j \in DOMAIN niches : available[j]}}

\* np.min(niche_counts[available_niches]) for a non-empty available_niches
MinCount(niche_counts, available_niches) ==
    CHOOSE c \in {niche_counts[n] : n \in available_niches} :
        \A n \in available_niches : c <= niche_counts[n]

\* np.flatnonzero(np.logical_and(available_niches, niche_counts == min_count)),
\* as a set
SelectedNiches(niches, niche_counts, available) ==
    {n \in AvailableNiches(niches, available) :
        niche_counts[n] = MinCount(niche_counts, AvailableNiches(niches, available))}

\* the outcomes of shuffling the set S and keeping the first n: the
\* sequences without repetition of Min(n, |S|) elements of S
ShuffledPrefixes(S, n) ==
    {q \in [1..Min(n, Cardinality(S)) -> S] :
        \A i, j \in DOMAIN q : q[i] = q[j] => i = j}

\* np.flatnonzero(np.logical_and(niches == niche, available)), as a set
NicheIndividuals(niches, available, niche) ==
    {i \in DOMAIN niches : niches[i] = niche /\ available[i]}

\* SelIndexChoices that takes any available member of the niche
SelIndexChoices_any(members, distances, count) ==
    members

\* the values sel_index can take after the shuffle of niche_individuals
\* (members): with a count of 0 a member of least distance (argmin takes
\* the first of them in the shuffled order), else the first of the shuffle
SelIndexChoices(members, distances, count) ==
    IF count = 0
    THEN {i \in members : \A j \in members : distances[i] <= distances[j]}
    ELSE members

\* NichingUpdate that leaves the individual available
NichingUpdate_keep(st, niche, sel_index) ==
    [st EXCEPT !.niche_counts[niche] = @ + 1,
               !.selected = Append(@, sel_index),
               !.selected_niches = Tail(@)]

\* "available[sel_index] = False; niche_counts[niche] += 1;
\* selected.append(pop[sel_index])", the for loop moving to the next niche
NichingUpdate(st, niche, sel_index) ==
    [st EXCEPT !.available[sel_index] = FALSE,
               !.niche_counts[niche] = @ + 1,
               !.selected = Append(@, sel_index),
               !.selected_niches = Tail(@)]

\* the call: selected = [], available = np.ones(len(pop))
CallNiching ==
    /\ op = "none"
    /\ kind = "niching"
    /\ \E kk \in 0..(Len(pop.niches) + 1) : k' = kk
    /\ ret' = [status |-> "running",
               selected |-> <<>>,
               available |-> [i \in DOMAIN pop.niches |-> TRUE],
               niche_counts |-> pop.niche_counts,
               selected_niches |-> <<>>,
               rounds |-> 0]
    /\ op' = "niching_while"
    /\ UNCHANGED <<pop, kind>>

\* "while len(selected) < k" is false: return selected
NichingReturn ==
    /\ op = "niching_while"
    /\ ~(Len(ret.selected) < k)
    /\ ret' = [ret EXCEPT !.status = "ok"]
    /\ op' = "niching_return"
    /\ UNCHANGED <<pop, kind, k>>

\* np.min of an empty array: no available individual is left
NichingRaise ==
    /\ op = "niching_while"
    /\ Len(ret.selected) < k
    /\ AvailableNiches(pop.niches, ret.available) = {}
    /\ ret' = [ret EXCEPT !.status = "error"]
    /\ op' = "niching_return"
    /\ UNCHANGED <<pop, kind, k>>

\* one test of the while loop that enters its body, up to the for loop
NichingWhile ==
    /\ op = "niching_while"
    /\ Len(ret.selected) < k
    /\ AvailableNiches(pop.niches, ret.available) # {}
    /\ \E q \in ShuffledPrefixes(SelectedNiches(pop.niches, ret.niche_counts, ret.available),
                                 k - Len(ret.selected)) :
          ret' = [ret EXCEPT !.selected_niches = q, !.rounds = @ + 1]
    /\ op' = "niching_for"
    /\ UNCHANGED <<pop, kind, k>>

\* one iteration of "for niche in selected_niches"
NichingFor ==
    /\ op = "niching_for"
    /\ \E sel_index \in SelIndexChoices(
                            NicheIndividuals(pop.niches, ret.available, ret.selected_niches[1]),
                            pop.distances,
                            ret.niche_counts[ret.selected_niches[1]]) :
          ret' = NichingUpdate(ret, ret.selected_niches[1], sel_index)
    /\ op' = IF Len(ret.selected_niches) = 1 THEN "niching_while" ELSE "niching_for"
    /\ UNCHANGED <<pop, kind, k>>

NextNiching ==
    \/ CallNiching
    \/ NichingWhile
    \/ NichingFor
    \/ NichingReturn
    \/ NichingRaise

SpecNiching == InitNiching /\ [][NextNiching]_vars

(***************************************************************************)
(* C12: niching called with 0 <= k <= len(pop), for any niches, any        *)
(* initial niche counts and any outcome of the shuffles, raises nothing,   *)
(* always has an individual to take where it stands, starts at most k      *)
(* rounds of its while loop, never selects an individual twice and         *)
(* returns exactly k individuals of pop.                                   *)
(***************************************************************************)
C12_NichingSelectsKDistinct ==
    (op \in {"niching_while", "niching_for", "niching_return"} /\ k <= Len(pop.niches)) =>
        /\ ret.status # "error"
        /\ ret.rounds <= k
        /\ NoDuplicates(ret.selected)
        /\ Range(ret.selected) \subseteq DOMAIN pop.niches
        /\ Len(ret.selected) <= k
        /\ (op = "niching_while" /\ Len(ret.selected) < k) =>
              \E i \in DOMAIN pop.niches : ret.available[i]
        /\ op = "niching_for" =>
              /\ ret.selected_niches # <<>>
              /\ \E i \in DOMAIN pop.niches :
                    ret.available[i] /\ pop.niches[i] = ret.selected_niches[1]
        /\ op = "niching_return" => (ret.status = "ok" /\ Len(ret.selected) = k)

\* niching has returned the whole population, k = len(pop), after several
\* rounds
C12_Witness ==
    /\ op = "niching_return"
    /\ k = MaxInd
    /\ Len(pop.niches) = MaxInd
    /\ ret.rounds >= 2
    /\ ret.rounds < k
    /\ Len(ret.selected) = k

(***************************************************************************)
(* C16: every selection of niching takes an available individual whose     *)
(* niche has, at that moment, the least count among the niches that still  *)
(* have an available member; when that count is 0 the individual has the   *)
(* least distance among the available members of the niche; the selection  *)
(* makes the individual unavailable, adds one to the count of its niche    *)
(* and changes no other count; at return niche_counts[n] is its initial    *)
(* value plus the number of selected individuals of niche n.               *)
(***************************************************************************)
C16_LeastUsedNicheRule ==
    /\ [][op = "niching_for" =>
            LET x == ret'.selected[Len(ret'.selected)]
                n == pop.niches[x]
            IN  /\ Len(ret'.selected) = Len(ret.selected) + 1
                /\ SubSeq(ret'.selected, 1, Len(ret.selected)) = ret.selected
                /\ ret.available[x]
                /\ \A j \in DOMAIN pop.niches :
                      ret.available[j] =>
                          ret.niche_counts[n] <= ret.niche_counts[pop.niches[j]]
                /\ ret.niche_counts[n] = 0 =>
                      \A j \in DOMAIN pop.niches :
                          (ret.available[j] /\ pop.niches[j] = n) =>
                              pop.distances[x] <= pop.distances[j]
                /\ ret'.available = [ret.available EXCEPT ![x] = FALSE]
                /\ ret'.niche_counts = [ret.niche_counts EXCEPT ![n] = @ + 1]]_vars
    /\ [](op = "niching_return" =>
            \A n \in DOMAIN pop.niche_counts :
                ret.niche_counts[n] = pop.niche_counts[n] +
                    Cardinality({i \in 1..Len(ret.selected) :
                                    pop.niches[ret.selected[i]] = n}))

\* niching has returned after taking two individuals from a niche whose
\* count was 0, the first of them the nearer of two available members
C16_Witness ==
    /\ op = "niching_return"
    /\ ret.status = "ok"
    /\ \E n \in DOMAIN pop.niche_counts :
          /\ pop.niche_counts[n] = 0
          /\ ret.niche_counts[n] >= 2
          /\ \E i, j \in DOMAIN pop.niches :
                /\ pop.niches[i] = n /\ pop.niches[j] = n
                /\ pop.distances[i] < pop.distances[j]
                /\ \E a, b \in 1..Len(ret.selected) :
                      a < b /\ ret.selected[a] = i /\ ret.selected[b] = j

(***************************************************************************)
(* assignCrowdingDist(pop).                                                *)
(*                                                                         *)
(* pop is the list of the (key, value) items of a front, modelled as the   *)
(* sequence of the fitness vectors; crowd is the list of the (fitness,     *)
(* index) pairs, modelled as the sequence of the indices.  A distance is   *)
(* float("inf") or a sum of quotients (next - prev) / norm with            *)
(* norm = nobj * (max - min): it is the record [inf, num], num counting    *)
(* units of 1 / (nobj * DistUnit), DistUnit being a common multiple of     *)
(* all the possible max - min; the floats are taken as exact rationals.    *)
(***************************************************************************)
MaxFront == 3    \* largest front given to assignCrowdingDist
MaxCVal == 2     \* its objective values range over 0..MaxCVal
MaxCObj == 2     \* its fitnesses have 1..MaxCObj objectives

RECURSIVE Factorial(_)
Factorial(n) == IF n <= 1 THEN 1 ELSE n * Factorial(n - 1)

\* a multiple of every difference 1..MaxCVal of two objective values
DistUnit == Factorial(MaxCVal)

\* float("inf")
Inf == [inf |-> TRUE, num |-> 0]

\* the float num / (nobj * DistUnit)
Finite(num) == [inf |-> FALSE, num |-> num]

\* d += num / (nobj * DistUnit); inf + x is inf
AddDist(d, num) == IF d.inf THEN d ELSE Finite(d.num + num)

RECURSIVE InsertByAxis(_, _, _, _)
\* x put in the sorted s behind the elements whose value on axis i is not
\* greater
InsertByAxis(s, x, P, i) ==
    IF s = <<>> THEN <<x>>
    ELSE IF P[x][i] < P[s[1]][i] THEN <<x>> \o s
    ELSE <<s[1]>> \o InsertByAxis(Tail(s), x, P, i)

RECURSIVE SortByAxis(_, _, _)
\* crowd.sort(key=lambda element: element[0][i]): stable, and it starts
\* from the order the previous axis left
SortByAxis(crowd, P, i) ==
    IF crowd = <<>> THEN <<>>
    ELSE InsertByAxis(SortByAxis(Take(crowd, Len(crowd) - 1), P, i),
                      crowd[Len(crowd)], P, i)

RECURSIVE CrowdInterior(_, _, _, _, _)
\* "for prev, cur, next in zip(crowd[:-2], crowd[1:-1], crowd[2:])", cur
\* being crowd[j]
CrowdInterior(P, crowd, distances, i, j) ==
    IF j > Len(crowd) - 1 THEN distances
    ELSE CrowdInterior(P, crowd,
             [distances EXCEPT ![crowd[j]] =
                 AddDist(@, (P[crowd[j + 1]][i] - P[crowd[j - 1]][i]) *
                            (DistUnit \div (P[crowd[Len(crowd)]][i] - P[crowd[1]][i])))],
             i, j + 1)

\* "distances[crowd[0][1]] = float("inf"); distances[crowd[-1][1]] =
\* float("inf")", which comes before the test of the two ends
CrowdEnds(P, crowd, distances, i) ==
    [distances EXCEPT ![crowd[1]] = Inf, ![crowd[Len(crowd)]] = Inf]

\* the rest of the body of "for i in range(nobj)", crowd being sorted on
\* axis i and the two ends set
CrowdAxis(P, crowd, distances, i) ==
    [crowd |-> crowd,
     distances |-> IF P[crowd[Len(crowd)]][i] = P[crowd[1]][i] THEN distances
                   ELSE CrowdInterior(P, crowd, distances, i, 2)]

\* the body of "for i in range(nobj)" from the sort on
CrowdSorted(P, crowd, distances, i) ==
    CrowdAxis(P, crowd, CrowdEnds(P, crowd, distances, i), i)

RECURSIVE CrowdLoop(_, _, _)
\* "for i in range(nobj)", axis i of Python being axis i + 1 here
CrowdLoop(P, st, i) ==
    IF i > Len(P[1]) THEN st
    ELSE CrowdLoop(P, CrowdSorted(P, SortByAxis(st.crowd, P, i), st.distances, i), i + 1)

\* assignCrowdingDist(pop): the distance of each individual, None for an
\* empty pop
assignCrowdingDist(P) ==
    IF Len(P) = 0 THEN [status |-> "ok", value |-> "None"]
    ELSE [status |-> "ok",
          value |-> CrowdLoop(P, [crowd |-> [x \in 1..Len(P) |-> x],
                                  distances |-> [x \in 1..Len(P) |-> Finite(0)]],
                              1).distances]

CrowdPops ==
    UNION {UNION {[1..n -> [1..M -> 0..MaxCVal]] : n \in 0..MaxFront} : M \in 1..MaxCObj}

InitCrowd ==
    /\ kind = "front"
    /\ pop \in CrowdPops
    /\ k = 0
    /\ op = "none"
    /\ ret = NoRet

CallAssignCrowdingDist ==
    /\ op = "none"
    /\ kind = "front"
    /\ ret' = assignCrowdingDist(pop)
    /\ op' = "assignCrowdingDist"
    /\ UNCHANGED <<pop, kind, k>>

NextCrowd == CallAssignCrowdingDist

SpecCrowd == InitCrowd /\ [][NextCrowd]_vars

RECURSIVE CrowdOrder(_)
\* the order of the individuals once sorted on axes 1..a one after the other
CrowdOrder(a) ==
    IF a = 0 THEN [x \in 1..Len(pop) |-> x]
    ELSE SortByAxis(CrowdOrder(a - 1), pop, a)

\* every individual has the same value on axis a
AxisAllEqual(a) == \A x, y \in Keys : pop[x][a] = pop[y][a]

\* the place of individual x in the order sorted on axis a
PlaceOnAxis(x, a) == CHOOSE j \in 1..Len(pop) : CrowdOrder(a)[j] = x

\* x is one of the two extreme individuals of an axis whose values differ
ExtremeOnSomeAxis(x) ==
    \E a \in 1..Len(pop[1]) :
        ~AxisAllEqual(a) /\ PlaceOnAxis(x, a) \in {1, Len(pop)}

RECURSIVE InteriorSum(_, _)
\* the sum over the axes 1..a of (next - prev) / (M * (max - min)), in
\* units of 1 / (M * DistUnit), an axis of equal values counting for zero
InteriorSum(x, a) ==
    IF a = 0 THEN 0
    ELSE InteriorSum(x, a - 1) +
         (IF AxisAllEqual(a) THEN 0
          ELSE LET o == CrowdOrder(a)
                   j == PlaceOnAxis(x, a)
               IN  (pop[o[j + 1]][a] - pop[o[j - 1]][a]) *
                   (DistUnit \div (pop[o[Len(pop)]][a] - pop[o[1]][a])))

(***************************************************************************)
(* C13: on a non-empty front the distance of an individual is the sum over *)
(* the axes of its contributions: on an axis whose values are not all      *)
(* equal the first and the last individual of the order sorted on that     *)
(* axis get an infinite distance and an interior individual gets           *)
(* (next - prev) / (M * (max - min)); an axis on which all the values are  *)
(* equal is skipped and makes no distance infinite or larger.              *)
(***************************************************************************)
C13_CrowdingDistancePerAxis ==
    (op = "assignCrowdingDist" /\ NonEmpty) =>
        \A x \in Keys :
            ret.value[x] = IF ExtremeOnSomeAxis(x) THEN Inf
                           ELSE Finite(InteriorSum(x, Len(pop[1])))

(***************************************************************************)
(* uniform_reference_points(nobj, p, scaling).                             *)
(*                                                                         *)
(* A coordinate i / total is held as its numerator i, the quotients being  *)
(* taken as exact rationals: a point is the sequence of its numerators     *)
(* and the result gives their common denominator.  scaling is None or the  *)
(* rational num / ScaleDen; after the scaling the coordinate               *)
(* (i / p) * scaling + (1 - scaling) / nobj has the numerator              *)
(* i * num * nobj + (ScaleDen - num) * p over p * ScaleDen * nobj.         *)
(* The variable pop holds the arguments [nobj, p, scaling].                *)
(***************************************************************************)
MaxNobj == 4     \* nobj ranges over 1..MaxNobj
MaxP == 4        \* p ranges over 1..MaxP
ScaleDen == 2    \* a scaling is num / ScaleDen, num in 0..ScaleDen

RECURSIVE gen_refs_recursive(_, _, _, _, _), gen_refs_loop(_, _, _, _, _, _)
RECURSIVE gen_refs_loop_short(_, _, _, _, _, _)
\* gen_refs_loop with range(left) for range(left + 1)
gen_refs_loop_short(ref, nobj, left, total, depth, i) ==
    IF i >= left THEN <<>>
    ELSE gen_refs_recursive([ref EXCEPT ![depth + 1] = i], nobj, left - i, total, depth + 1)
         \o gen_refs_loop_short(ref, nobj, left, total, depth, i + 1)

\* "for i in range(left + 1)" from i on: ref[depth] = i / total, then the
\* points of the recursive call on a copy of ref
gen_refs_loop(ref, nobj, left, total, depth, i) ==
    IF i > left THEN <<>>
    ELSE gen_refs_recursive([ref EXCEPT ![depth + 1] = i], nobj, left - i, total, depth + 1)
         \o gen_refs_loop(ref, nobj, left, total, depth, i + 1)

\* depth of Python is the index depth + 1 here
gen_refs_recursive(ref, nobj, left, total, depth) ==
    IF depth = nobj - 1 THEN <<[ref EXCEPT ![depth + 1] = left]>>
    ELSE gen_refs_loop(ref, nobj, left, total, depth, 0)

\* "ref_points *= scaling; ref_points += (1 - scaling) / nobj"
ScalePoints(ref_points, nobj, p, num) ==
    [n \in 1..Len(ref_points) |->
        [d \in 1..nobj |-> ref_points[n][d] * num * nobj + (ScaleDen - num) * p]]

uniform_reference_points(nobj, p, scaling) ==
    IF scaling.none
    THEN [status |-> "ok",
          points |-> gen_refs_recursive([d \in 1..nobj |-> 0], nobj, p, p, 0),
          denom  |-> p]
    ELSE [status |-> "ok",
          points |-> ScalePoints(gen_refs_recursive([d \in 1..nobj |-> 0], nobj, p, p, 0),
                                 nobj, p, scaling.num),
          denom  |-> p * ScaleDen * nobj]

Scalings ==
    {[none |-> TRUE, num |-> 0]} \cup {[none |-> FALSE, num |-> x] : x \in 0..ScaleDen}

InitRefs ==
    /\ kind = "refs"
    /\ pop \in [nobj : 1..MaxNobj, p : 1..MaxP, scaling : Scalings]
    /\ k = 0
    /\ op = "none"
    /\ ret = NoRet

CallUniformReferencePoints ==
    /\ op = "none"
    /\ kind = "refs"
    /\ ret' = uniform_reference_points(pop.nobj, pop.p, pop.scaling)
    /\ op' = "uniform_reference_points"
    /\ UNCHANGED <<pop, kind, k>>

NextRefs == CallUniformReferencePoints

SpecRefs == InitRefs /\ [][NextRefs]_vars

RECURSIVE Binomial(_, _)
\* the number of subsets of r elements of a set of n elements
Binomial(n, r) ==
    IF r = 0 THEN 1
    ELSE IF n = 0 THEN 0
    ELSE Binomial(n - 1, r - 1) + Binomial(n - 1, r)

\* the compositions of p into M parts, each part a natural number
Compositions(M, p) == {c \in [1..M -> 0..p] : SumSeq(c) = p}

(***************************************************************************)
(* C14: uniform_reference_points(M, p) with M >= 1, p >= 1 and no scaling  *)
(* returns C(p+M-1, M-1) points, one for every composition of p into M     *)
(* natural numbers and none twice, with the coordinates part_i / p, so     *)
(* that the coordinates of every point sum to 1.                           *)
(***************************************************************************)
C14_ReferencePointsAreCompositions ==
    (op = "uniform_reference_points" /\ pop.scaling.none) =>
        /\ ret.status = "ok"
        /\ ret.denom = pop.p
        /\ Len(ret.points) = Binomial(pop.p + pop.nobj - 1, pop.nobj - 1)
        /\ NoDuplicates(ret.points)
        /\ Range(ret.points) = Compositions(pop.nobj, pop.p)
        /\ \A n \in 1..Len(ret.points) : SumSeq(ret.points[n]) = ret.denom

\* the 35 points of 4 objectives and 4 divisions have been returned
C14_Witness ==
    /\ op = "uniform_reference_points"
    /\ pop.scaling.none
    /\ pop.nobj = MaxNobj
    /\ pop.p = MaxP
    /\ Len(ret.points) > MaxNobj
    /\ \E n \in 1..Len(ret.points) : \A d \in 1..pop.nobj : ret.points[n][d] >= 1

(***************************************************************************)
(* find_intercepts(extreme_points, best_point, current_worst,              *)
(* front_worst), for two objectives.                                       *)
(*                                                                         *)
(* The arguments are integer vectors and the floats are taken as exact     *)
(* rationals [num, den] with den > 0.  np.linalg.solve(A, b) on the 2 x 2  *)
(* system is Cramer's rule: it raises LinAlgError when the determinant is  *)
(* 0, else x[j] is XNum(A)[j] / Det(A).  The variable pop holds the four   *)
(* arguments.                                                              *)
(***************************************************************************)
MaxF == 1        \* the coordinates of the arguments range over 0..MaxF
EpsDen == 1000000    \* the threshold 1e-6 is 1 / EpsDen

\* the float n / d, d # 0
Rational(n, d) == IF d > 0 THEN [num |-> n, den |-> d] ELSE [num |-> 0 - n, den |-> 0 - d]

\* q <= 1e-6
AtMostEps(q) == q.num * EpsDen <= q.den

\* q + v > w for the integers v and w
SumExceeds(q, v, w) == q.num + v * q.den > w * q.den

\* A = extreme_points - best_point (best_point is taken from each row)
Translate(extreme_points, best_point) ==
    [i \in 1..2 |-> [j \in 1..2 |-> extreme_points[i][j] - best_point[j]]]

Det(A) == A[1][1] * A[2][2] - A[1][2] * A[2][1]

\* the numerators of the solution of A x = (1, 1)
XNum(A) == <<A[2][2] - A[1][2], A[1][1] - A[2][1]>>

\* an integer vector as a vector of floats
AsFloats(v) == [j \in 1..2 |-> Rational(v[j], 1)]

\* the else branch of the try: x is XNum(A) / Det(A), all its components
\* not zero, and intercepts = 1 / x; np.allclose(np.dot(A, x), b) holds of
\* the exact solution
InterceptsOfSolution(A, best_point, current_worst, front_worst) ==
    LET intercepts == [j \in 1..2 |-> Rational(Det(A), XNum(A)[j])]
    IN  IF \E j \in 1..2 : AtMostEps(intercepts[j])
        THEN [status |-> "ok", branch |-> "non-positive", intercepts |-> AsFloats(front_worst)]
        ELSE IF \E j \in 1..2 : SumExceeds(intercepts[j], best_point[j], current_worst[j])
        THEN [status |-> "ok", branch |-> "worse", intercepts |-> AsFloats(front_worst)]
        ELSE [status |-> "ok", branch |-> "solved", intercepts |-> intercepts]

find_intercepts(extreme_points, best_point, current_worst, front_worst) ==
    IF Det(Translate(extreme_points, best_point)) = 0
    THEN [status |-> "ok", branch |-> "singular", intercepts |-> AsFloats(current_worst)]
    ELSE IF \E j \in 1..2 : XNum(Translate(extreme_points, best_point))[j] = 0
    THEN [status |-> "ok", branch |-> "zero", intercepts |-> AsFloats(front_worst)]
    ELSE InterceptsOfSolution(Translate(extreme_points, best_point),
                              best_point, current_worst, front_worst)

Points2 == [1..2 -> 0..MaxF]

InitIntercepts ==
    /\ kind = "intercepts"
    /\ pop \in [extreme_points : [1..2 -> Points2], best_point : Points2,
                current_worst : Points2, front_worst : Points2]
    /\ k = 0
    /\ op = "none"
    /\ ret = NoRet

CallFindIntercepts ==
    /\ op = "none"
    /\ kind = "intercepts"
    /\ ret' = find_intercepts(pop.extreme_points, pop.best_point,
                              pop.current_worst, pop.front_worst)
    /\ op' = "find_intercepts"
    /\ UNCHANGED <<pop, kind, k>>

NextIntercepts == CallFindIntercepts

SpecIntercepts == InitIntercepts /\ [][NextIntercepts]_vars

(***************************************************************************)
(* C15: whatever the extreme points, the ideal point, the current worst    *)
(* and the front worst, and whichever branch produces it, every component  *)
(* of the vector find_intercepts returns is strictly greater than 1e-6.    *)
(***************************************************************************)
C15_InterceptsAboveEpsilon ==
    op = "find_intercepts" =>
        \A j \in 1..2 : ~AtMostEps(ret.intercepts[j])

\* the individuals that dominate x under isDominated
Dominators(x) == {y \in Keys : isDominated(pop[x], pop[y])}

RECURSIVE Depth(_)
\* the dominance depth of x: 0 when nothing dominates x, else one more
\* than the greatest depth of its dominators
Depth(x) ==
    IF Dominators(x) = {} THEN 0
    ELSE 1 + (CHOOSE d \in {Depth(y) : y \in Dominators(x)} :
                 \A y \in Dominators(x) : Depth(y) <= d)

(***************************************************************************)
(* C17: sortNondominated with k >= N puts every individual in the front    *)
(* whose index is its dominance depth under isDominated; hence no          *)
(* individual dominates an individual of the same or of an earlier front,  *)
(* and every individual of a front r >= 1 is dominated by an individual of *)
(* front r - 1.                                                            *)
(***************************************************************************)
C17_FrontIndexIsDominanceDepth ==
    (op = "sortNondominated" /\ k >= Len(pop) /\ NonEmpty) =>
        /\ ret.status = "ok"
        /\ Range(Returned) = Keys
        /\ NoDuplicates(Returned)
        /\ \A x \in Keys : FrontIndex(x) = Depth(x)
        /\ \A x, y \in Keys :
              isDominated(pop[x], pop[y]) => FrontIndex(y) < FrontIndex(x)
        /\ \A x \in Keys :
              FrontIndex(x) >= 1 =>
                  \E y \in Keys : /\ FrontIndex(y) = FrontIndex(x) - 1
                                  /\ isDominated(pop[x], pop[y])

\* the naive sort has ranked a chain: an individual dominated by two
\* others that are in two different fronts
C17_Witness ==
    /\ op = "sortNondominated"
    /\ k >= Len(pop)
    /\ Len(ret.fronts) >= 3
    /\ \E x, y, z \in Keys :
          /\ isDominated(pop[x], pop[y]) /\ isDominated(pop[x], pop[z])
          /\ FrontIndex(y) # FrontIndex(z)

=============================================================================
